---- MODULE Spec2Model ----
(***************************************************************************)
(* Mission integration of hoburg/turbofan: the StateLinking constraint     *)
(* generator and the Mission assembly of the two variants                  *)
(*   simple   : engine_flight_profile_integration.py  (climb, cruise)      *)
(*   twoclimb : TASOPT_flight_profile_2_climb_segs.py (climb1, climb2,     *)
(*              cruise-climb)                                              *)
(* Python indices are kept 0-based.                                        *)
(***************************************************************************)
EXTENDS Integers, Sequences, FiniteSets, TLC

VARIABLES variant,      \* "simple" | "twoclimb": which source file's classes
          caller,       \* "direct": StateLinking(...) built on its own; "mission": from Mission.setup
          Nclimb1,      \* Nclimb1 (twoclimb) / Nclimb (simple)
          Nclimb2,      \* Nclimb2 (twoclimb); 0 in the simple variant (no such segment)
          Ncruise,      \* Ncruise
          enginelen,    \* length of the shared flight-state sequence enginestate
          pc,           \* position in the code
          it,           \* next value of the outer loop's range iterator
          jt,           \* next value of the running inner loop's range iterator
          i,            \* the Python variable i, shared by the outer and inner loops
          varkey,       \* the Python variable varkey
          linkcons,     \* StateLinking's list `constraints`
          constraints,  \* Mission's list `constraints`
          focus,        \* the variable group the solver's point is enumerated for
          program,      \* the model as the solver holds it: constraints over variable positions
          vals,         \* the solver's point: values of FocusVars in order, as far as fixed
          wiring,       \* Mission's lists enginecruise + engineclimb..., as returned
          driver        \* the state of a driver script (__main__), see DriverInit

vars == <<variant, caller, Nclimb1, Nclimb2, Ncruise, enginelen, pc, it, jt, i,
          varkey, linkcons, constraints, focus, program, vals, wiring, driver>>

\* ---------------------------------------------------------------- bounds
MaxPoints == 5   \* largest total number of mission points (sum of the segment counts)
LenSlack == 1    \* a direct StateLinking call gets a shared length within sum +- LenSlack
MaxW == 6        \* weights range over 1..MaxW
MaxRng == 2      \* per-point downrange distances range over 1..MaxRng
MaxReq == 4      \* ReqRng ranges over 1..MaxReq
MaxRC == 2       \* climb rates and RC_{min} range over 1..MaxRC
MaxAlt == 7      \* altitudes range over 1..MaxAlt steps of the altitude grid
MaxStep == 3     \* per-step altitude deltas range over 1..MaxStep steps of the grid
MaxFuelPoints == 3  \* largest total number of mission points when fuel totals are enumerated
MaxPart == 2     \* largest component weight and engine count
MaxDry == 6      \* largest dry weight when the dry weight sum is solved
SweepLen == 2    \* number of values of a swept substitution
MaxFuelW == 5    \* weights and fuel weights range over 1..MaxFuelW when fuel totals are enumerated

\* ------------------------------------------------------- StateLinking.setup
statevarkeys == <<"p_{sl}", "T_{sl}", "L_{atm}", "M_{atm}", "P_{atm}", "R_{atm}",
                  "\\rho", "T_{atm}", "\\mu", "T_s", "C_1", "h", "hft", "V", "a",
                  "R", "\\gamma", "M">>

Variants == {"simple", "twoclimb"}

\* the segments of a variant, in the order of the inner loops / mission phases
Segments(vnt) == IF vnt = "simple" THEN <<"climb", "cruise">>
                 ELSE <<"climb1", "climb2", "cruise">>

\* the count argument StateLinking receives for a segment
SegLen(seg) == CASE seg \in {"climb", "climb1"} -> Nclimb1
                 [] seg = "climb2" -> Nclimb2
                 [] seg = "cruise" -> Ncruise

SumLen == Nclimb1 + Nclimb2 + Ncruise

\* the offset added to the local index in the enginestate subscript of a segment's loop
OffsetCruiseAfterFirstClimb(vnt, seg, n1, n2) ==
    CASE seg \in {"climb", "climb1"} -> 0
      [] seg = "climb2" -> n1
      [] seg = "cruise" -> n1
Offset(vnt, seg, n1, n2) ==
    CASE seg \in {"climb", "climb1"} -> 0                       \* enginestate[varkey][i]
      [] seg = "climb2" -> n1                                    \* [i + Nclimb1]
      [] seg = "cruise" -> IF vnt = "simple" THEN n1             \* [i+Nclimb]
                           ELSE n1 + n2                          \* [i + Nclimb1 + Nclimb2]

\* the value the outer `for i in range(len(statevarkeys))` binds next: a Python
\* range iterator yields its own position, whatever the loop body has assigned
\* to the loop variable in the meantime
OuterIndexFromLoopVar(pos, loopvar) == loopvar + 1
OuterIndex(pos, loopvar) == pos

\* what is left of a sequence of length len after `seq[varkey][index]` was
\* evaluated: a subscript reads, the sequence keeps its entries
AfterPop(len) == len - 1
AfterSubscript(len) == len

InnerPc(k) == CASE k = 1 -> "inner1" [] k = 2 -> "inner2" [] k = 3 -> "inner3"

\* `for i in range(len(statevarkeys))`: bind i and varkey to the next field and
\* enter the first inner loop, or leave the loop and `return constraints`
OuterStep ==
    LET nxt == OuterIndex(it, i) IN
    /\ pc = "outer"
    /\ IF nxt < Len(statevarkeys)
       THEN /\ i' = nxt
            /\ it' = nxt + 1
            /\ varkey' = statevarkeys[nxt + 1]
            /\ jt' = 0
            /\ pc' = InnerPc(1)
       ELSE /\ pc' = IF caller = "mission" THEN "assemble" ELSE "returned"
            /\ UNCHANGED <<i, it, varkey, jt>>
    /\ UNCHANGED <<variant, caller, Nclimb1, Nclimb2, Ncruise, enginelen, linkcons,
                   constraints, focus, program, vals, wiring, driver>>

\* one pass of the k-th inner loop `for i in range(N_seg)`: either the range is
\* exhausted and control moves to the next inner loop (after the last one, back
\* to the outer loop), or i is bound and
\*     segstate[varkey][i] == enginestate[varkey][i + offset]
\* is appended; a subscript past the end of enginestate raises IndexError.
\* (The segment-local state has the length of the count passed for it.)
InnerStep(k) ==
    LET seg == Segments(variant)[k]
        g   == jt + Offset(variant, seg, Nclimb1, Nclimb2)
    IN
    /\ pc = InnerPc(k)
    /\ IF jt < SegLen(seg)
       THEN /\ i' = jt
            /\ jt' = jt + 1
            /\ IF g < enginelen
               THEN /\ linkcons' = Append(linkcons,
                           [key |-> varkey, seg |-> seg, loc |-> jt, glob |-> g])
                    /\ pc' = pc
               ELSE /\ pc' = "error"
                    /\ UNCHANGED linkcons
       ELSE /\ jt' = 0
            /\ pc' = IF k < Len(Segments(variant)) THEN InnerPc(k + 1) ELSE "outer"
            /\ UNCHANGED <<i, linkcons>>
    /\ enginelen' = IF jt < SegLen(seg) /\ g < enginelen THEN AfterSubscript(enginelen)
                    ELSE enginelen
    /\ UNCHANGED <<variant, caller, Nclimb1, Nclimb2, Ncruise, it, varkey,
                   constraints, focus, program, vals, wiring, driver>>

\* ----------------------------------------------- constraints, as gpkit builds them
\* a variable: name, owning model (a segment, "ac", "engine" or "mission"), index
\* in its vector (0 for a scalar)
Vr(n, s, k) == [n |-> n, s |-> s, k |-> k]
Sc(n) == Vr(n, "mission", 0)          \* a scalar Variable declared in Mission.setup
Ac(n) == Vr(n, "ac", 0)               \* ac['...']
\* a monomial c/d * product of vs; a posynomial is a sequence of monomials
Mon(c, d, vs) == [c |-> c, d |-> d, vs |-> vs]
P(v) == <<Mon(1, 1, <<v>>)>>          \* the variable on its own
K(c) == <<Mon(c, 1, <<>>)>>           \* a constant
Over(v, n) == <<Mon(1, n, <<v>>)>>    \* v / n
\* a constraint lhs op rhs; wrap: "TCS" when wrapped in TCS([...]), "SigEq" when
\* built by SignomialEquality(lhs, rhs), "" otherwise; line: its source line
Con(lhs, op, rhs, wrap, line) ==
    [lhs |-> lhs, op |-> op, rhs |-> rhs, wrap |-> wrap, line |-> line]
\* an elementwise constraint over vectors of length n: one constraint per index
Vec(n, F(_)) == [k \in 1..n |-> F(k - 1)]
\* sum(vector): the posynomial of all its entries
SumOf(n, s, len) == [k \in 1..len |-> Mon(1, 1, <<Vr(n, s, k - 1)>>)]
\* the concatenation of a sequence of sequences
RECURSIVE Flat(_)
Flat(ss) == IF ss = <<>> THEN <<>> ELSE Head(ss) \o Flat(Tail(ss))

\* W_start >= W_end + W_burn over a whole segment, wrapped in TCS
BurnRowsWithoutBurn(s, len, line) ==
    Vec(len, LAMBDA k : Con(P(Vr("W_{start}", s, k)), ">=",
                            P(Vr("W_{end}", s, k)), "TCS", line))
BurnRows(s, len, line) ==
    Vec(len, LAMBDA k : Con(P(Vr("W_{start}", s, k)), ">=",
                            P(Vr("W_{end}", s, k)) \o P(Vr("W_{burn}", s, k)), "TCS", line))
\* seg['W_{start}'][1:] == seg['W_{end}'][:-1]
ContinuityRowsSkipFirst(s, len, line) ==
    Vec(len - 2, LAMBDA k : Con(P(Vr("W_{start}", s, k + 2)), "==",
                                P(Vr("W_{end}", s, k + 1)), "", line))
ContinuityRows(s, len, line) ==
    Vec(len - 1, LAMBDA k : Con(P(Vr("W_{start}", s, k + 1)), "==",
                                P(Vr("W_{end}", s, k)), "", line))
\* seg['W_{burn}'] == ac['numeng']*ac.engine['TSFC'][lo:lo+len] * seg['thr'] * ac.engine['F'][lo:lo+len]
FuelRowsUnshifted(s, len, lo, line) ==
    Vec(len, LAMBDA k : Con(P(Vr("W_{burn}", s, k)), "==",
             <<Mon(1, 1, <<Ac("numeng"), Vr("TSFC", "engine", k),
                           Vr("thr", s, k), Vr("F", "engine", k)>>)>>, "", line))
FuelRows(s, len, lo, line) ==
    Vec(len, LAMBDA k : Con(P(Vr("W_{burn}", s, k)), "==",
             <<Mon(1, 1, <<Ac("numeng"), Vr("TSFC", "engine", lo + k),
                           Vr("thr", s, k), Vr("F", "engine", lo + k)>>)>>, "", line))

\* segA['W_{end}'][-1] == segB['W_{start}'][0]
BoundaryRowNone(sa, lena, sb, line) == <<>>
BoundaryRow(sa, lena, sb, line) ==
    <<Con(P(Vr("W_{end}", sa, lena - 1)), "==", P(Vr("W_{start}", sb, 0)), "", line)>>
\* TCS([W_dry <= cruise['W_{end}'][-1]])
DryRowFirstPoint(Ncr, line) ==
    <<Con(P(Sc("W_{dry}")), "<=", P(Vr("W_{end}", "cruise", 0)), "TCS", line)>>
DryRow(Ncr, line) ==
    <<Con(P(Sc("W_{dry}")), "<=", P(Vr("W_{end}", "cruise", Ncr - 1)), "TCS", line)>>
\* cruise.cruiseP['Rng'] == ReqRng/(Ncruise)
CruiseRangeRowsUndivided(Ncr, line) ==
    Vec(Ncr, LAMBDA k : Con(P(Vr("Rng", "cruise", k)), "==", P(Sc("ReqRng")), "", line))
CruiseRangeRows(Ncr, line) ==
    Vec(Ncr, LAMBDA k : Con(P(Vr("Rng", "cruise", k)), "==", Over(Sc("ReqRng"), Ncr), "", line))
\* sum(cruise['RngCruise']) + sum(climb2['RngClimb']) + sum(climb1['RngClimb']) >= ReqRng
RangeRowWithoutClimb1(N1, N2, Ncr, line) ==
    <<Con(SumOf("RngCruise", "cruise", Ncr) \o SumOf("RngClimb", "climb2", N2),
          ">=", P(Sc("ReqRng")), "", line)>>
RangeRow(N1, N2, Ncr, line) ==
    <<Con(SumOf("RngCruise", "cruise", Ncr) \o SumOf("RngClimb", "climb2", N2)
            \o SumOf("RngClimb", "climb1", N1), ">=", P(Sc("ReqRng")), "", line)>>

\* the Variable holding the fuel burned in a segment: W_fclimb, W_fclimb1, ...
FuelOf(s) == CASE s = "climb" -> Sc("W_{f_{climb}}")
               [] s = "climb1" -> Sc("W_{f_{climb1}}")
               [] s = "climb2" -> Sc("W_{f_{climb2}}")
               [] s = "cruise" -> Sc("W_{f_{cruise}}")
\* TCS([W_ftotal >= W_fclimb1 + W_fclimb2 + W_fcruise])
TotalFuelRowWithoutLast(segs, line) ==
    <<Con(P(Sc("W_{f_{total}}")), ">=",
          Flat([j \in 1..(Len(segs) - 1) |-> P(FuelOf(segs[j]))]), "TCS", line)>>
TotalFuelRow(segs, line) ==
    <<Con(P(Sc("W_{f_{total}}")), ">=",
          Flat([j \in 1..Len(segs) |-> P(FuelOf(segs[j]))]), "TCS", line)>>
\* TCS([W_fclimb1 >= sum(climb1['W_{burn}'])])
SegmentFuelRowFirstBurn(s, len, line) ==
    <<Con(P(FuelOf(s)), ">=", SumOf("W_{burn}", s, 1), "TCS", line)>>
SegmentFuelRow(s, len, line) ==
    <<Con(P(FuelOf(s)), ">=", SumOf("W_{burn}", s, len), "TCS", line)>>

\* hftCruise == CruiseAlt
LevelCruiseRowsFirstPoint(Ncr, line) ==
    <<Con(P(Vr("hft", "cruise", 0)), "==", P(Sc("CruiseAlt")), "", line)>>
LevelCruiseRows(Ncr, line) ==
    Vec(Ncr, LAMBDA k : Con(P(Vr("hft", "cruise", k)), "==", P(Sc("CruiseAlt")), "", line))
\* hftClimb2[-1] == hftCruise: one scalar against the whole cruise vector
Climb2TopRowsBelow(N2, Ncr, line) ==
    Vec(Ncr, LAMBDA k : Con(P(Vr("hft", "climb2", N2 - 1)), "<=",
                            P(Vr("hft", "cruise", k)), "", line))
Climb2TopRows(N2, Ncr, line) ==
    Vec(Ncr, LAMBDA k : Con(P(Vr("hft", "climb2", N2 - 1)), "==",
                            P(Vr("hft", "cruise", k)), "", line))
\* hftClimb1[-1] == 10000*units('ft')
Climb1TopRowAtLeast(N1, line) ==
    <<Con(P(Vr("hft", "climb1", N1 - 1)), ">=", K(10000), "", line)>>
Climb1TopRow(N1, line) ==
    <<Con(P(Vr("hft", "climb1", N1 - 1)), "==", K(10000), "", line)>>

\* TCS([ac['W_{e}'] + ac['W_{payload}'] + ac['numeng'] * ac['W_{engine}'] + ac['W_{wing}'] <= W_dry])
DryWeightRowOneEngine(line) ==
    Con(P(Ac("W_{e}")) \o P(Ac("W_{payload}")) \o P(Ac("W_{engine}")) \o P(Ac("W_{wing}")),
        "<=", P(Sc("W_{dry}")), "TCS", line)
DryWeightRow(line) ==
    Con(P(Ac("W_{e}")) \o P(Ac("W_{payload}"))
          \o <<Mon(1, 1, <<Ac("numeng"), Ac("W_{engine}")>>)>> \o P(Ac("W_{wing}")),
        "<=", P(Sc("W_{dry}")), "TCS", line)
\* hftClimb[-1] <= hftCruise
ClimbTopRowsFirstPoint(Nclimb, Ncr, line) ==
    Vec(Ncr, LAMBDA k : Con(P(Vr("hft", "climb", 0)), "<=",
                            P(Vr("hft", "cruise", k)), "", line))
ClimbTopRows(Nclimb, Ncr, line) ==
    Vec(Ncr, LAMBDA k : Con(P(Vr("hft", "climb", Nclimb - 1)), "<=",
                            P(Vr("hft", "cruise", k)), "", line))
\* SignomialEquality(hftCruise[1:Ncruise], hftCruise[:Ncruise-1] + dhftholdcr)
CruiseStepRowsAtLeast(Ncr, line) ==
    Vec(Ncr - 1, LAMBDA k : Con(P(Vr("hft", "cruise", k + 1)), ">=",
             P(Vr("hft", "cruise", k)) \o P(Sc("dhftholdcr")), "TCS", line))
CruiseStepRows(Ncr, line) ==
    Vec(Ncr - 1, LAMBDA k : Con(P(Vr("hft", "cruise", k + 1)), "==",
             P(Vr("hft", "cruise", k)) \o P(Sc("dhftholdcr")), "SigEq", line))
\* climb1['V'] <= 250*units('knots')
SpeedLimitRowsFirstPoint(N1, line) ==
    <<Con(P(Vr("V", "climb1", 0)), "<=", K(250), "", line)>>
SpeedLimitRows(N1, line) ==
    Vec(N1, LAMBDA k : Con(P(Vr("V", "climb1", k)), "<=", K(250), "", line))

\* the indices of an engine vector of length L that the segment's slice selects:
\* [:Nclimb], [Nclimb:] (simple); [:Nclimb1], [Nclimb1:Nclimb1 + Nclimb2],
\* [Nclimb1 + Nclimb2:] (two-climb)
EngineSlice(vnt, seg, n1, n2, L) ==
    LET lo == CASE seg \in {"climb", "climb1"} -> 0
                [] seg = "climb2" -> n1
                [] seg = "cruise" -> IF vnt = "simple" THEN n1 ELSE n1 + n2
        hi == CASE seg \in {"climb", "climb1"} -> n1
                [] seg = "climb2" -> n1 + n2
                [] seg = "cruise" -> L
        top == IF hi < L THEN hi ELSE L
    IN [k \in 1..(IF top > lo THEN top - lo ELSE 0) |-> lo + k - 1]

\* ---- the lists engineclimb..., enginecruise of Mission.setup
\* M2 = .8, M25 = .6, M0 = .8
M2 == Mon(8, 10, <<>>)
M25 == Mon(6, 10, <<>>)
M0 == Mon(8, 10, <<>>)
\* 1+.5*(g-1)*M**2, with g - 1 given in thousandths (1.398-1, 1.354-1, .401)
Stagnation(gm1, m) ==
    Mon(10000 * m.d * m.d + 5 * gm1 * m.c * m.c, 10000 * m.d * m.d, <<>>)
\* a monomial with the variables inv in its denominator
MonOver(c, d, vs, inv) == [c |-> c, d |-> d, vs |-> vs, inv |-> inv]
\* every index of an engine vector of length L
WholeVector(L) == [k \in 1..L |-> k - 1]

\* ac.engine.engineP[name][slice] == <constant>
EngineConstRows(name, sl, const, line) ==
    Vec(Len(sl), LAMBDA k : Con(P(Vr(name, "engine", sl[k + 1])), "==", <<const>>, "", line))
\* ac.engine.engineP['M_2'][slice] == seg['M']
MachRowsLocalIndex(s, sl, line) ==
    Vec(Len(sl), LAMBDA k : Con(P(Vr("M_2", "engine", k)), "==",
                                P(Vr("M", s, k)), "", line))
MachRows(s, sl, line) ==
    Vec(Len(sl), LAMBDA k : Con(P(Vr("M_2", "engine", sl[k + 1])), "==",
                                P(Vr("M", s, k)), "", line))
\* ac['numeng']*ac.engine['F'][slice] >= seg['D'] + seg['W_{avg}'] * seg['\\theta']
ThrustRows(s, sl, line) ==
    Vec(Len(sl), LAMBDA k :
          Con(<<Mon(1, 1, <<Ac("numeng"), Vr("F", "engine", sl[k + 1])>>)>>, ">=",
              <<Mon(1, 1, <<Vr("D", s, k)>>),
                Mon(1, 1, <<Vr("W_{avg}", s, k), Vr("\\theta", s, k)>>)>>, "", line))
\* TCS([seg['excessP'] + seg.state['V'] * seg['D'] <= seg.state['V'] * ac['numeng'] * ac.engine['F'][slice]])
ExcessPowerRows(s, sl, line) ==
    Vec(Len(sl), LAMBDA k :
          Con(<<Mon(1, 1, <<Vr("excessP", s, k)>>),
                Mon(1, 1, <<Vr("V", s, k), Vr("D", s, k)>>)>>, "<=",
              <<Mon(1, 1, <<Vr("V", s, k), Ac("numeng"), Vr("F", "engine", sl[k + 1])>>)>>,
              "TCS", line))
\* cruise['D'] == ac['numeng'] * ac.engine['F'][Nclimb:]
CruiseDragRowsAtMost(sl, line) ==
    Vec(Len(sl), LAMBDA k :
          Con(P(Vr("D", "cruise", k)), "<=",
              <<Mon(1, 1, <<Ac("numeng"), Vr("F", "engine", sl[k + 1])>>)>>, "", line))
CruiseDragRows(sl, line) ==
    Vec(Len(sl), LAMBDA k :
          Con(P(Vr("D", "cruise", k)), "==",
              <<Mon(1, 1, <<Ac("numeng"), Vr("F", "engine", sl[k + 1])>>)>>, "", line))
\* TCS([cruise['z_{bre}'] >= (ac.engine['TSFC'][Nclimb:] * cruise['thr'] * cruise['D']) / cruise['W_{avg}']])
BreguetRows(sl, line) ==
    Vec(Len(sl), LAMBDA k :
          Con(P(Vr("z_{bre}", "cruise", k)), ">=",
              <<MonOver(1, 1, <<Vr("TSFC", "engine", sl[k + 1]), Vr("thr", "cruise", k),
                                Vr("D", "cruise", k)>>,
                        <<Vr("W_{avg}", "cruise", k)>>)>>, "TCS", line))

\* enginecruise + engineclimb, engine_flight_profile_integration.py; the engine's
\* performance vectors have the length L of the shared flight state
SimpleWiring(Nclimb, Ncr, L) ==
    LET cl == EngineSlice("simple", "climb", Nclimb, 0, L)
        cr == EngineSlice("simple", "cruise", Nclimb, 0, L)
    IN
       MachRows("cruise", cr, 164)
    \o EngineConstRows("M_{2.5}", cr, M25, 165)
    \o CruiseDragRows(cr, 168)
    \o BreguetRows(cr, 171)
    \o MachRows("climb", cl, 148)
    \o EngineConstRows("M_{2.5}", cl, M25, 149)
    \o EngineConstRows("hold_{2}", WholeVector(L), Stagnation(398, M2), 150)
    \o EngineConstRows("hold_{2.5}", WholeVector(L), Stagnation(354, M25), 151)
    \o EngineConstRows("c1", WholeVector(L), Stagnation(401, M0), 152)
    \o ThrustRows("climb", cl, 155)
    \o ExcessPowerRows("climb", cl, 158)

\* enginecruise + engineclimb1 + engineclimb2, TASOPT_flight_profile_2_climb_segs.py
TwoClimbWiring(N1, N2, Ncr, L) ==
    LET c1 == EngineSlice("twoclimb", "climb1", N1, N2, L)
        c2 == EngineSlice("twoclimb", "climb2", N1, N2, L)
        cr == EngineSlice("twoclimb", "cruise", N1, N2, L)
    IN
       MachRows("cruise", cr, 212)
    \o ThrustRows("cruise", cr, 217)
    \o ExcessPowerRows("cruise", cr, 220)
    \o MachRows("climb1", c1, 176)
    \o EngineConstRows("M_{2.5}", WholeVector(L), M25, 177)
    \o EngineConstRows("hold_{2}", WholeVector(L), Stagnation(398, M2), 178)
    \o EngineConstRows("hold_{2.5}", WholeVector(L), Stagnation(354, M25), 179)
    \o EngineConstRows("c1", WholeVector(L), Stagnation(401, M0), 180)
    \o ThrustRows("climb1", c1, 183)
    \o ExcessPowerRows("climb1", c1, 186)
    \o MachRows("climb2", c2, 196)
    \o ThrustRows("climb2", c2, 199)
    \o ExcessPowerRows("climb2", c2, 202)

MissionWiring(vnt, N1, N2, Ncr, L) ==
    IF vnt = "simple" THEN SimpleWiring(N1, Ncr, L) ELSE TwoClimbWiring(N1, N2, Ncr, L)

\* the list `constraints` of Mission.setup, engine_flight_profile_integration.py
SimpleConstraints(Nclimb, Ncr) ==
       <<DryWeightRow(97),
         Con(P(Sc("W_{dry}")) \o P(Sc("W_{f_{total}}")), "<=", P(Sc("W_{total}")), "TCS", 98),
         Con(P(Vr("W_{start}", "climb", 0)), "==", P(Sc("W_{total}")), "", 100)>>
    \o BoundaryRow("climb", Nclimb, "cruise", 101)
    \o BurnRows("climb", Nclimb, 104)
    \o BurnRows("cruise", Ncr, 106)
    \o ContinuityRows("climb", Nclimb, 108)
    \o ContinuityRows("cruise", Ncr, 109)
    \o DryRow(Ncr, 111)
    \o TotalFuelRow(<<"climb", "cruise">>, 113)
    \o SegmentFuelRow("climb", Nclimb, 114)
    \o SegmentFuelRow("cruise", Ncr, 115)
    \* altitude constraints
    \o LevelCruiseRows(Ncr, 118)
    \o Vec(Nclimb - 1, LAMBDA k : Con(P(Vr("hft", "climb", k + 1)), ">=",
             P(Vr("hft", "climb", k)) \o P(Vr("dhft", "climb", k)), "TCS", 119))
    \o <<Con(P(Vr("hft", "climb", 0)), ">=", P(Vr("dhft", "climb", 0)), "TCS", 120)>>
    \o ClimbTopRows(Nclimb, Ncr, 121)
    \o <<Con(P(Sc("dhfthold")), "==", Over(Vr("hft", "cruise", 0), Nclimb), "", 124)>>
    \o Vec(Nclimb, LAMBDA k : Con(P(Vr("dhft", "climb", k)), "==", P(Sc("dhfthold")), "", 126))
    \* range of each cruise point
    \o CruiseRangeRows(Ncr, 130)
    \* fuel burn from TSFC
    \o FuelRows("cruise", Ncr, Nclimb, 133)
    \o FuelRows("climb", Nclimb, 0, 134)
    \o <<Con(P(Sc("CruiseAlt")), ">=", K(30000), "", 136)>>
    \* min climb rate constraint
    \o Vec(Nclimb, LAMBDA k : Con(P(Vr("RC", "climb", k)), ">=", P(Sc("RC_{min}")), "", 139))

\* the list `constraints` of Mission.setup, TASOPT_flight_profile_2_climb_segs.py
TwoClimbConstraints(N1, N2, Ncr) ==
       <<DryWeightRow(113),
         Con(P(Sc("W_{dry}")) \o P(Sc("W_{f_{total}}")), "<=", P(Sc("W_{total}")), "TCS", 114),
         Con(P(Vr("W_{start}", "climb1", 0)), "==", P(Sc("W_{total}")), "", 116)>>
    \o BoundaryRow("climb1", N1, "climb2", 117)
    \o BoundaryRow("climb2", N2, "cruise", 118)
    \o BurnRows("climb1", N1, 120)
    \o BurnRows("climb2", N2, 121)
    \o BurnRows("cruise", Ncr, 122)
    \o ContinuityRows("climb1", N1, 124)
    \o ContinuityRows("climb2", N2, 125)
    \o ContinuityRows("cruise", Ncr, 126)
    \o DryRow(Ncr, 128)
    \o TotalFuelRow(<<"climb1", "climb2", "cruise">>, 130)
    \o SegmentFuelRow("climb1", N1, 131)
    \o SegmentFuelRow("climb2", N2, 132)
    \o SegmentFuelRow("cruise", Ncr, 133)
    \* altitude constraints
    \o <<Con(P(Vr("hft", "cruise", 0)), "==", P(Sc("CruiseAlt")), "", 136)>>
    \o CruiseStepRows(Ncr, 138)
    \o Vec(N2 - 1, LAMBDA k : Con(P(Vr("hft", "climb2", k + 1)), "<=",
             P(Vr("hft", "climb2", k)) \o P(Sc("dhftholdcl2")), "TCS", 139))
    \o <<Con(P(Vr("hft", "climb2", 0)), "<=", P(Sc("dhftholdcl2")) \o K(10000), "TCS", 140)>>
    \o Climb2TopRows(N2, Ncr, 141)
    \o Vec(N1 - 1, LAMBDA k : Con(P(Vr("hft", "climb1", k + 1)), ">=",
             P(Vr("hft", "climb1", k)) \o P(Sc("dhftholdcl1")), "TCS", 142))
    \o <<Con(P(Vr("hft", "climb1", 0)), "==", P(Vr("dhft", "climb1", 0)), "TCS", 143)>>
    \o Climb1TopRow(N1, 144)
    \* compute the dh2
    \o Vec(Ncr, LAMBDA k : Con(P(Sc("dhftholdcl2")), ">=",
             Over(Vr("hft", "cruise", k), N2) \o <<Mon(-10000, N2, <<>>)>>, "", 147))
    \o Vec(N2, LAMBDA k : Con(P(Sc("dhftholdcl2")), "==", P(Vr("dhft", "climb2", k)), "", 149))
    \* compute the dh1
    \o <<Con(P(Sc("dhftholdcl1")), "==", <<Mon(10000, N1, <<>>)>>, "", 151)>>
    \o Vec(N1, LAMBDA k : Con(P(Sc("dhftholdcl1")), "==", P(Vr("dhft", "climb1", k)), "", 152))
    \o Vec(Ncr, LAMBDA k : Con(P(Vr("dhft", "cruise", k)), "==", P(Sc("dhftholdcr")), "", 154))
    \* the range requirement
    \o RangeRow(N1, N2, Ncr, 156)
    \* fuel burn from TSFC
    \o FuelRows("cruise", Ncr, N1 + N2, 159)
    \o FuelRows("climb1", N1, 0, 160)
    \o FuelRows("climb2", N2, N1, 161)
    \* (line 164, the min climb rate constraint, is commented out in the source)
    \o SpeedLimitRows(N1, 166)

MissionConstraints(vnt, N1, N2, Ncr) ==
    IF vnt = "simple" THEN SimpleConstraints(N1, Ncr) ELSE TwoClimbConstraints(N1, N2, Ncr)

\* --------------------------------------------------------------- Mission.setup
\* `with Vectorize(N...): enginestate = FlightState()`, the aircraft and the
\* segments (each vectorized by its own count), then the call
\* StateLinking(<segment states>, enginestate, <counts>)
\* the length of enginestate: Vectorize(Nclimb + Ncruise) (simple, n2 = 0),
\* Vectorize(Nclimb1 + Nclimb2 + Ncruise) (two-climb)
EngineStateLenWithoutClimb2(n1, n2, ncr) == n1 + ncr
EngineStateLen(n1, n2, ncr) == n1 + n2 + ncr

MissionBuild ==
    /\ pc = "mission"
    /\ enginelen' = EngineStateLen(Nclimb1, Nclimb2, Ncruise)
    /\ pc' = "outer"
    /\ UNCHANGED <<variant, caller, Nclimb1, Nclimb2, Ncruise, it, jt, i, varkey,
                   linkcons, constraints, focus, program, vals, wiring, driver>>

\* the rest of Mission.setup after StateLinking returned: the list `constraints`
\* is filled and returned together with the sub-models and statelinking
MissionAssemble ==
    /\ pc = "assemble"
    /\ constraints' = MissionConstraints(variant, Nclimb1, Nclimb2, Ncruise)
    /\ wiring' = MissionWiring(variant, Nclimb1, Nclimb2, Ncruise, enginelen)
    /\ pc' = "built"
    /\ UNCHANGED <<variant, caller, Nclimb1, Nclimb2, Ncruise, enginelen, it, jt, i,
                   varkey, linkcons, focus, program, vals, driver>>

\* ------------------------------------------------- the solution localsolve returns
\* gpkit variables are strictly positive.  A solution satisfies every constraint
\* of the model; it is enumerated one variable group (focus) at a time, over the
\* constraints that mention only variables of the group.
Foci == {"weight", "range", "rc", "alt", "fuel", "dry"}

\* the variables names[1..m] of every point of segment s, point by point
PointVars(names, s) ==
    LET m == Len(names) IN
    [j \in 1..(SegLen(s) * m) |-> Vr(names[((j - 1) % m) + 1], s, (j - 1) \div m)]

AllPoints(names, segs) == Flat([j \in 1..Len(segs) |-> PointVars(names, segs[j])])

ClimbSegs(vnt) == IF vnt = "simple" THEN <<"climb">> ELSE <<"climb1", "climb2">>

FocusVars(f) ==
    CASE f = "weight" ->
           <<Sc("W_{total}")>>
           \o AllPoints(<<"W_{start}", "W_{end}", "W_{burn}">>, Segments(variant))
           \o <<Sc("W_{dry}")>>
      [] f = "range" ->
           <<Sc("ReqRng")>>
           \o AllPoints(<<"RngClimb">>, ClimbSegs(variant))
           \o PointVars(<<IF variant = "simple" THEN "Rng" ELSE "RngCruise">>, "cruise")
      [] f = "rc" ->
           <<Sc("RC_{min}")>> \o AllPoints(<<"RC">>, ClimbSegs(variant))
      [] f = "fuel" ->
           <<Sc("W_{total}"), Sc("W_{dry}"), Sc("W_{f_{total}}")>>
           \o [j \in 1..Len(Segments(variant)) |-> FuelOf(Segments(variant)[j])]
           \o AllPoints(<<"W_{start}", "W_{end}", "W_{burn}">>, Segments(variant))
      [] f = "alt" /\ variant = "simple" ->
           <<Sc("CruiseAlt")>> \o PointVars(<<"hft">>, "cruise")
           \o <<Sc("dhfthold")>> \o PointVars(<<"dhft">>, "climb")
           \o PointVars(<<"hft">>, "climb")
      [] f = "alt" /\ variant = "twoclimb" ->
           <<Sc("dhftholdcl1")>> \o PointVars(<<"dhft">>, "climb1")
           \o PointVars(<<"hft">>, "climb1")
           \o <<Sc("CruiseAlt"), Sc("dhftholdcr")>> \o PointVars(<<"hft">>, "cruise")
           \o PointVars(<<"dhft">>, "cruise")
           \o <<Sc("dhftholdcl2")>> \o PointVars(<<"dhft">>, "climb2")
           \o PointVars(<<"hft">>, "climb2")
      [] f = "dry" ->
           <<Ac("W_{e}"), Ac("W_{payload}"), Ac("numeng"), Ac("W_{engine}"), Ac("W_{wing}"),
             Sc("W_{dry}")>>
      [] OTHER -> <<>>

Domain(v) ==
    CASE v.n \in {"W_{e}", "W_{payload}", "numeng", "W_{engine}", "W_{wing}"} -> 1..MaxPart
      [] v.n = "W_{dry}" /\ focus = "dry" -> 1..MaxDry
      [] v.n \in {"W_{total}", "W_{dry}", "W_{start}", "W_{end}", "W_{burn}"} ->
             1..(IF focus = "fuel" THEN MaxFuelW ELSE MaxW)
      [] v.n \in {"W_{f_{total}}", "W_{f_{climb}}", "W_{f_{climb1}}", "W_{f_{climb2}}",
                  "W_{f_{cruise}}"} -> 1..MaxFuelW
      [] v.n \in {"RngClimb", "RngCruise", "Rng"} -> 1..MaxRng
      [] v.n = "ReqRng" -> 1..MaxReq
      [] v.n \in {"RC", "RC_{min}"} -> 1..MaxRC
      [] v.n \in {"hft", "CruiseAlt"} -> 1..MaxAlt
      [] v.n \in {"dhft", "dhfthold", "dhftholdcl1", "dhftholdcl2", "dhftholdcr"} -> 1..MaxStep

\* position of variable v in fv, 0 when it is not one of them
PosIn(v, fv) ==
    IF \E k \in 1..Len(fv) : fv[k] = v THEN CHOOSE k \in 1..Len(fv) : fv[k] = v ELSE 0

\* The solver's point holds lengths in steps of a grid; one step is
\* Quantum.num / Quantum.den ft, so that the constants 30000 ft (simple) and
\* 10000 ft (two-climb) and their quotients by the climb count lie on the grid.
Quantum == IF variant = "simple" THEN [num |-> 30000, den |-> Nclimb1]
           ELSE [num |-> 10000, den |-> Nclimb1]

\* a posynomial / constraint with every variable replaced by its position and
\* every constant (a length in ft) expressed in grid steps
CompilePoly(p, fv) ==
    [j \in 1..Len(p) |->
        [c |-> IF p[j].vs = <<>> THEN p[j].c * Quantum.den ELSE p[j].c,
         d |-> IF p[j].vs = <<>> THEN p[j].d * Quantum.num ELSE p[j].d,
         ps |-> [k \in 1..Len(p[j].vs) |-> PosIn(p[j].vs[k], fv)]]]
CompileRow(con, fv) ==
    [lhs |-> CompilePoly(con.lhs, fv), op |-> con.op, rhs |-> CompilePoly(con.rhs, fv),
     wrap |-> con.wrap, line |-> con.line]

PolyPositions(p) == UNION {{p[j].ps[k] : k \in 1..Len(p[j].ps)} : j \in 1..Len(p)}
Positions(row) == PolyPositions(row.lhs) \cup PolyPositions(row.rhs)
LastPosition(row) == CHOOSE m \in Positions(row) : \A q \in Positions(row) : q <= m

\* the model restricted to the variables fv: the constraints that mention only
\* variables of fv, each filed under the last of its variables
Compile(cons, fv) ==
    LET rows == [j \in 1..Len(cons) |-> CompileRow(cons[j], fv)]
        ingroup(r) == Positions(r) # {} /\ 0 \notin Positions(r)
    IN [n \in 1..Len(fv) |->
          SelectSeq(rows, LAMBDA r : ingroup(r) /\ LastPosition(r) = n)]

RECURSIVE DenProd(_)
DenProd(p) == IF p = <<>> THEN 1 ELSE Head(p).d * DenProd(Tail(p))

RECURSIVE PosProd(_, _)
PosProd(ps, vs) == IF ps = <<>> THEN 1 ELSE vs[Head(ps)] * PosProd(Tail(ps), vs)

\* sc times the value of posynomial p at the point vs; sc is a multiple of
\* every denominator
RECURSIVE PolyVal(_, _, _)
PolyVal(p, sc, vs) ==
    IF p = <<>> THEN 0
    ELSE Head(p).c * (sc \div Head(p).d) * PosProd(Head(p).ps, vs) + PolyVal(Tail(p), sc, vs)

\* does the point satisfy the constraint
Holds(row, vs) ==
    LET sc == DenProd(row.lhs) * DenProd(row.rhs)
        l  == PolyVal(row.lhs, sc, vs)
        r  == PolyVal(row.rhs, sc, vs)
    IN CASE row.op = "==" -> l = r
         [] row.op = ">=" -> l >= r
         [] row.op = "<=" -> l <= r

\* the point satisfies every constraint filed under variable n
HoldsAt(prog, n, vs) == \A j \in 1..Len(prog[n]) : Holds(prog[n][j], vs)

\* a complete point satisfies the whole model
Feasible(prog, vs) == \A n \in 1..Len(prog) : HoldsAt(prog, n, vs)

\* value of variable v at the solver's point
ValueAt(v) == vals[PosIn(v, FocusVars(focus))]

\* the cost handed to Model: mission['W_{f_{total}}']
Objective == Sc("W_{f_{total}}")

\* m = Model(mission['W_{f_{total}}'], mission, substitutions); m.localsolve(...)
Localsolve(f) ==
    /\ pc = "built"
    /\ focus' = f
    /\ program' = Compile(constraints, FocusVars(f))
    /\ vals' = <<>>
    /\ pc' = "solving"
    /\ UNCHANGED <<variant, caller, Nclimb1, Nclimb2, Ncruise, enginelen, it, jt, i,
                   varkey, linkcons, constraints, wiring, driver>>

\* the solver fixes the value of the next variable of the group; only values
\* that satisfy every constraint among the variables fixed so far can be part
\* of a solution
Assign ==
    LET n == Len(vals) + 1 IN
    /\ pc = "solving"
    /\ n <= Len(program)
    /\ \E x \in Domain(FocusVars(focus)[n]) :
          /\ HoldsAt(program, n, Append(vals, x))
          /\ vals' = Append(vals, x)
    /\ pc' = IF n = Len(program) THEN "solved" ELSE "solving"
    /\ UNCHANGED <<variant, caller, Nclimb1, Nclimb2, Ncruise, enginelen, it, jt, i,
                   varkey, linkcons, constraints, focus, program, wiring, driver>>

\* ------------------------------------------------------- the driver scripts
\* The statements of `if __name__ == '__main__':` that construct a Mission,
\* build a Model or solve, and the plot-flag tests around them.
\* <name> = Mission(<counts>)
New(name, counts, line) == [op |-> "new", name |-> name, counts |-> counts, line |-> line]
\* m = Model(<name>['W_{f_{total}}'], <name>, substitutions[, x0=x0])
ModelOf(name, x0, line) == [op |-> "model", name |-> name, x0 |-> x0, line |-> line]
\* sol = m.localsolve(...) with plain substitutions
BaselineSolve(line) == [op |-> "solve", sweep |-> FALSE, skip |-> FALSE, line |-> line]
\* sol...sweep = m.localsolve(..., skipsweepfailures=True) with a swept substitution
SweepSolveStrict(line) == [op |-> "solve", sweep |-> TRUE, skip |-> FALSE, line |-> line]
SweepSolve(line) == [op |-> "solve", sweep |-> TRUE, skip |-> TRUE, line |-> line]
\* if <flag> == True: (the statement after the block is number else)
IfFlag(flag, else, line) == [op |-> "if", flag |-> flag, else |-> else, line |-> line]

Script(vnt) ==
    IF vnt = "simple"
    THEN << New("mission", <<2, 2>>, 195), ModelOf("mission", FALSE, 196), BaselineSolve(197),
            IfFlag("plotR", 8, 199),
            New("mission", <<2, 2>>, 203), ModelOf("mission", TRUE, 204), SweepSolve(205),
            IfFlag("plotAlt", 12, 420),
            New("mmission", <<2, 2>>, 424), ModelOf("mission", FALSE, 425), SweepSolve(426),
            IfFlag("plotRC", 16, 531),
            New("mission", <<2, 2>>, 535), ModelOf("mission", FALSE, 536), SweepSolve(537) >>
    ELSE << New("mission", <<3, 3, 8>>, 367), ModelOf("mission", TRUE, 368), BaselineSolve(369),
            IfFlag("plotR", 8, 372),
            New("mission", <<4, 4, 4>>, 417), ModelOf("mission", TRUE, 418), SweepSolve(419),
            IfFlag("plotAlt", 12, 569),
            New("mmission", <<2, 2, 2>>, 615), ModelOf("mission", FALSE, 616), SweepSolve(617),
            IfFlag("plotRC", 16, 722),
            New("mission", <<2, 2, 2>>, 767), ModelOf("mission", FALSE, 768), SweepSolve(769) >>

\* the names bound at module level when the statement runs: x0 is assigned in
\* the two-climb script only (line 280)
X0Defined(vnt) == vnt = "twoclimb"

Flags == {"plotR", "plotAlt", "plotRC"}

\* the script's state before its first Mission: at: number of the next
\* statement; names: the Mission instance bound to each name (0: unbound);
\* insts: the counts of the Mission instances made so far; model: the instance
\* the current Model m was built from; solves: one record per localsolve call;
\* val: the sweep value being solved (0: no solve running); status: "running",
\* "finished", "NameError" or "RuntimeWarning"
DriverInit(flags) ==
    [at |-> 1, flags |-> flags, names |-> [mission |-> 0, mmission |-> 0],
     insts |-> <<>>, model |-> 0, solves |-> <<>>, val |-> 0, status |-> "running"]

Stmt == Script(variant)[driver.at]
Running(op) ==
    /\ pc = "script" /\ driver.status = "running"
    /\ driver.at <= Len(Script(variant)) /\ Stmt.op = op

DriverNew ==
    /\ Running("new")
    /\ driver' = [driver EXCEPT !.insts = Append(@, Stmt.counts),
                                !.names[Stmt.name] = Len(driver.insts) + 1,
                                !.at = @ + 1]
    /\ UNCHANGED <<variant, caller, Nclimb1, Nclimb2, Ncruise, enginelen, pc, it, jt, i,
                   varkey, linkcons, constraints, focus, program, vals, wiring>>

DriverModel ==
    /\ Running("model")
    /\ driver' = IF (Stmt.x0 /\ ~ X0Defined(variant)) \/ driver.names[Stmt.name] = 0
                 THEN [driver EXCEPT !.status = "NameError"]
                 ELSE [driver EXCEPT !.model = driver.names[Stmt.name], !.at = @ + 1]
    /\ UNCHANGED <<variant, caller, Nclimb1, Nclimb2, Ncruise, enginelen, pc, it, jt, i,
                   varkey, linkcons, constraints, focus, program, vals, wiring>>

\* m.localsolve(...) is called: the solver is handed the model
DriverSolve ==
    /\ Running("solve") /\ driver.val = 0
    /\ driver' = [driver EXCEPT
                    !.solves = Append(@, [inst |-> driver.model, made |-> Len(driver.insts),
                                          sweep |-> Stmt.sweep, skip |-> Stmt.skip,
                                          line |-> Stmt.line, tried |-> 0, ok |-> 0]),
                    !.val = 1]
    /\ UNCHANGED <<variant, caller, Nclimb1, Nclimb2, Ncruise, enginelen, pc, it, jt, i,
                   varkey, linkcons, constraints, focus, program, vals, wiring>>

\* the solve of one (sweep) value succeeds or fails; a failure is passed over
\* under skipsweepfailures and is raised otherwise
DriverSolveValue ==
    LET n == Len(driver.solves)
        last == IF Stmt.sweep THEN SweepLen ELSE 1
    IN
    /\ Running("solve") /\ driver.val >= 1
    /\ \E solved \in BOOLEAN :
          driver' =
             IF ~ solved /\ ~ Stmt.skip
             THEN [driver EXCEPT !.solves[n].tried = @ + 1, !.status = "RuntimeWarning"]
             ELSE [driver EXCEPT !.solves[n].tried = @ + 1,
                                 !.solves[n].ok = IF solved THEN @ + 1 ELSE @,
                                 !.val = IF driver.val = last THEN 0 ELSE @ + 1,
                                 !.at = IF driver.val = last THEN @ + 1 ELSE @]
    /\ UNCHANGED <<variant, caller, Nclimb1, Nclimb2, Ncruise, enginelen, pc, it, jt, i,
                   varkey, linkcons, constraints, focus, program, vals, wiring>>

DriverIf ==
    /\ Running("if")
    /\ driver' = [driver EXCEPT !.at = IF driver.flags[Stmt.flag] THEN @ + 1 ELSE Stmt.else]
    /\ UNCHANGED <<variant, caller, Nclimb1, Nclimb2, Ncruise, enginelen, pc, it, jt, i,
                   varkey, linkcons, constraints, focus, program, vals, wiring>>

\* the script has run past its last statement
DriverEnd ==
    /\ pc = "script" /\ driver.status = "running" /\ driver.at > Len(Script(variant))
    /\ driver' = [driver EXCEPT !.status = "finished"]
    /\ UNCHANGED <<variant, caller, Nclimb1, Nclimb2, Ncruise, enginelen, pc, it, jt, i,
                   varkey, linkcons, constraints, focus, program, vals, wiring>>

\* ------------------------------------------------------------- specifications
Init ==
    /\ variant \in Variants
    /\ caller \in {"direct", "mission"}
    /\ Nclimb1 \in 1..MaxPoints
    /\ Nclimb2 \in (IF variant = "simple" THEN {0} ELSE 1..MaxPoints)
    /\ Ncruise \in 1..MaxPoints
    /\ SumLen <= MaxPoints
    /\ enginelen \in (IF caller = "mission" THEN {0}
                      ELSE (SumLen - LenSlack)..(SumLen + LenSlack))
    /\ pc = IF caller = "mission" THEN "mission" ELSE "outer"
    /\ it = 0
    /\ jt = 0
    /\ i = -1
    /\ varkey = ""
    /\ linkcons = <<>>
    /\ constraints = <<>>
    /\ focus = ""
    /\ program = <<>>
    /\ vals = <<>>
    /\ wiring = <<>>
    /\ driver = <<>>

\* construction of a StateLinking on its own, or of a Mission
Build ==
    \/ MissionBuild
    \/ OuterStep
    \/ \E k \in 1..3 : k <= Len(Segments(variant)) /\ InnerStep(k)
    \/ MissionAssemble

Next == Build

Spec == Init /\ [][Next]_vars

\* a Mission is constructed and solved; the solution is enumerated over one
\* variable group
InitMission == Init /\ caller = "mission"

NextWeight == Build \/ Localsolve("weight") \/ Assign
SpecWeight == InitMission /\ [][NextWeight]_vars

NextRange == Build \/ Localsolve("range") \/ Assign
SpecRange == InitMission /\ [][NextRange]_vars

NextRC == Build \/ Localsolve("rc") \/ Assign
SpecRC == InitMission /\ [][NextRC]_vars

NextDry == Build \/ Localsolve("dry") \/ Assign
SpecDry == InitMission /\ [][NextDry]_vars

NextFuel == Build \/ Localsolve("fuel") \/ Assign
InitFuel == InitMission /\ SumLen <= MaxFuelPoints
SpecFuel == InitFuel /\ [][NextFuel]_vars

\* a driver script is run with some setting of its plot flags
InitDriver ==
    /\ variant \in Variants
    /\ caller = "script"
    /\ Nclimb1 = 0 /\ Nclimb2 = 0 /\ Ncruise = 0 /\ enginelen = 0
    /\ pc = "script"
    /\ it = 0 /\ jt = 0 /\ i = -1 /\ varkey = ""
    /\ linkcons = <<>> /\ constraints = <<>> /\ focus = "" /\ program = <<>>
    /\ vals = <<>> /\ wiring = <<>>
    /\ \E flags \in [Flags -> BOOLEAN] : driver = DriverInit(flags)

NextDriver ==
    DriverNew \/ DriverModel \/ DriverSolve \/ DriverSolveValue \/ DriverIf \/ DriverEnd
SpecDriver == InitDriver /\ [][NextDriver]_vars

NextAlt == Build \/ Localsolve("alt") \/ Assign
SpecAlt == InitMission /\ [][NextAlt]_vars

\* ------------------------------------------------------------------ properties
\* StateLinking was given counts that sum to the length of enginestate
LengthsMatch == caller = "mission" \/ enginelen = SumLen
\* StateLinking has returned its list
LinkReturned == pc \in {"returned", "assemble"}
\* Mission.setup has returned
Built == pc \in {"built", "solving", "solved"}

\* the sum of the counts of the segments before seg in mission order
RECURSIVE Preceding(_, _)
Preceding(segs, seg) ==
    IF Head(segs) = seg THEN 0
    ELSE SegLen(Head(segs)) + Preceding(Tail(segs), seg)

LinksOf(key, seg, loc) ==
    {j \in 1..Len(linkcons) :
        linkcons[j].key = key /\ linkcons[j].seg = seg /\ linkcons[j].loc = loc}
LinksTo(key, g) ==
    {j \in 1..Len(linkcons) : linkcons[j].key = key /\ linkcons[j].glob = g}
SegsOf(vnt) == {Segments(vnt)[k] : k \in 1..Len(Segments(vnt))}
KeySet == {statevarkeys[k] : k \in 1..Len(statevarkeys)}

\* C1: when the counts sum to the shared length, no (field, segment, local
\* index) and no (field, global index) is ever linked twice while the list is
\* built, and the returned list has exactly 18 x (sum of counts) constraints in
\* which each of the 18 fields links every (segment, local index) pair and
\* every global index exactly once.
C1_LinkedExactlyOnce ==
    LengthsMatch =>
      /\ (pc \in {"outer", "inner1", "inner2", "inner3"} /\ linkcons # <<>>) =>
            LET last == linkcons[Len(linkcons)] IN
            \A j \in 1..(Len(linkcons) - 1) :
               ~ ( /\ linkcons[j].key = last.key
                   /\ \/ linkcons[j].seg = last.seg /\ linkcons[j].loc = last.loc
                      \/ linkcons[j].glob = last.glob )
      /\ LinkReturned =>
            /\ Len(statevarkeys) = 18
            /\ Cardinality(KeySet) = 18
            /\ Len(linkcons) = 18 * SumLen
            /\ \A key \in KeySet :
                  /\ \A seg \in SegsOf(variant) : \A loc \in 0..(SegLen(seg) - 1) :
                        Cardinality(LinksOf(key, seg, loc)) = 1
                  /\ \A g \in 0..(enginelen - 1) : Cardinality(LinksTo(key, g)) = 1

C1_Witness ==
    /\ pc = "returned" /\ variant = "twoclimb" /\ enginelen = SumLen
    /\ Nclimb1 = 1 /\ Nclimb2 = 2 /\ Ncruise = 2
    /\ Len(linkcons) = 90

\* C2: every constraint links local index loc of its segment to global index
\* (sum of the counts of the preceding segments) + loc, so the segments' global
\* ranges follow one another without gap or overlap; in the simple variant a
\* global index Nclimb + j is linked to cruise index j and to no climb index.
C2_CumulativeOffsets ==
    \A j \in 1..Len(linkcons) :
       LET c == linkcons[j]
           base == Preceding(Segments(variant), c.seg)
       IN /\ c.loc \in 0..(SegLen(c.seg) - 1)
          /\ c.glob = base + c.loc
          /\ c.glob \in base..(base + SegLen(c.seg) - 1)
          /\ (variant = "simple" /\ c.glob >= Nclimb1) =>
                (c.seg = "cruise" /\ c.loc = c.glob - Nclimb1)

C2_Witness ==
    /\ LinkReturned /\ variant = "twoclimb" /\ Nclimb1 = 2 /\ Nclimb2 = 1 /\ Ncruise = 2
    /\ \E j \in 1..Len(linkcons) :
          linkcons[j].seg = "cruise" /\ linkcons[j].loc = 1 /\ linkcons[j].glob = 4
    /\ \E j \in 1..Len(linkcons) :
          linkcons[j].seg = "climb2" /\ linkcons[j].loc = 0 /\ linkcons[j].glob = 2

\* C3 (as claimed; the code violates it): a StateLinking built with counts whose sum differs from the length of
\* the shared flight-state sequence never returns a constraint list.
C3_MismatchFails ==
    (caller = "direct" /\ enginelen # SumLen) => ~ LinkReturned

\* ---- properties of the assembled Mission and of its solutions
PolyVars(p) == UNION {{p[j].vs[k] : k \in 1..Len(p[j].vs)} : j \in 1..Len(p)}
VarsOf(con) == PolyVars(con.lhs) \cup PolyVars(con.rhs)
\* the constraints of the list whose variables are exactly vset
RowsOver(vset) == {j \in 1..Len(constraints) : VarsOf(constraints[j]) = vset}
\* the constraints of the list that mention a variable named n
RowsNaming(n) == {j \in 1..Len(constraints) : \E v \in VarsOf(constraints[j]) : v.n = n}

Solved(f) == pc = "solved" /\ focus = f
W(n, s, k) == ValueAt(Vr(n, s, k))
\* the mission points in global order: all points of each segment, segment by segment
MissionPoints == AllPoints(<<"point">>, Segments(variant))
FirstSeg == Segments(variant)[1]

RECURSIVE SumSeq(_)
SumSeq(q) == IF q = <<>> THEN 0 ELSE Head(q) + SumSeq(Tail(q))

\* C4: the first climb point starts at W_total and, for every pair of adjacent
\* segments, the end weight of the last point of the earlier one equals the
\* start weight of the first point of the later one; the list holds exactly one
\* equality for the start and one for each boundary.
C4_WeightChained ==
    LET S == Segments(variant) IN
    /\ pc = "built" =>
          /\ Cardinality(RowsOver({Vr("W_{start}", S[1], 0), Sc("W_{total}")})) = 1
          /\ \A k \in 1..(Len(S) - 1) :
                LET rows == RowsOver({Vr("W_{end}", S[k], SegLen(S[k]) - 1),
                                      Vr("W_{start}", S[k + 1], 0)})
                IN /\ Cardinality(rows) = 1
                   /\ \A j \in rows : constraints[j].op = "=="
    /\ Solved("weight") =>
          /\ W("W_{start}", S[1], 0) = ValueAt(Sc("W_{total}"))
          /\ \A k \in 1..(Len(S) - 1) :
                W("W_{end}", S[k], SegLen(S[k]) - 1) = W("W_{start}", S[k + 1], 0)

C4_Witness ==
    /\ Solved("weight") /\ variant = "twoclimb"
    /\ Nclimb1 = 2 /\ Nclimb2 = 1 /\ Ncruise = 1
    /\ ValueAt(Sc("W_{total}")) = 6
    /\ W("W_{end}", "climb1", 1) = 3 /\ W("W_{start}", "climb2", 0) = 3
    /\ W("W_{end}", "climb2", 0) = 2 /\ W("W_{start}", "cruise", 0) = 2

\* C5: in every segment of M points every point has W_start >= W_end + W_burn
\* and every point but the last hands its end weight to the next point's start
\* weight; the list holds exactly M - 1 such continuity equalities per segment
\* (none when M = 1).
C5_SegmentWeights ==
    /\ pc = "built" =>
          \A s \in SegsOf(variant) :
             /\ \A k \in 0..(SegLen(s) - 2) :
                   Cardinality(RowsOver({Vr("W_{start}", s, k + 1), Vr("W_{end}", s, k)})) = 1
             /\ Cardinality({j \in 1..Len(constraints) :
                    /\ constraints[j].op = "=="
                    /\ \E a, b \in 0..(SegLen(s) - 1) :
                          VarsOf(constraints[j]) = {Vr("W_{start}", s, a), Vr("W_{end}", s, b)}})
                  = SegLen(s) - 1
    /\ Solved("weight") =>
          \A s \in SegsOf(variant) :
             /\ \A k \in 0..(SegLen(s) - 1) :
                   W("W_{start}", s, k) >= W("W_{end}", s, k) + W("W_{burn}", s, k)
             /\ \A k \in 0..(SegLen(s) - 2) :
                   W("W_{start}", s, k + 1) = W("W_{end}", s, k)

C5_Witness ==
    /\ Solved("weight") /\ variant = "simple" /\ Nclimb1 = 1 /\ Ncruise = 3
    /\ W("W_{start}", "cruise", 0) = 5 /\ W("W_{end}", "cruise", 0) = 3
    /\ W("W_{burn}", "cruise", 0) = 1 /\ W("W_{start}", "cruise", 1) = 3
    /\ W("W_{end}", "cruise", 1) = 2 /\ W("W_{start}", "cruise", 2) = 2

\* C6: the dry weight is at most the end weight of the last cruise point.
C6_DryWeightFloor ==
    /\ pc = "built" =>
          \E j \in RowsOver({Sc("W_{dry}"), Vr("W_{end}", "cruise", Ncruise - 1)}) :
             /\ constraints[j].op = "<="
             /\ PolyVars(constraints[j].lhs) = {Sc("W_{dry}")}
    /\ Solved("weight") =>
          ValueAt(Sc("W_{dry}")) <= W("W_{end}", "cruise", Ncruise - 1)

C6_Witness ==
    /\ Solved("weight") /\ variant = "simple" /\ Nclimb1 = 1 /\ Ncruise = 2
    /\ W("W_{end}", "cruise", 0) = 3 /\ W("W_{end}", "cruise", 1) = 2
    /\ ValueAt(Sc("W_{dry}")) = 2

\* C7: in every solution the start weights in global mission order begin at
\* W_total, never increase, decrease strictly across a point that burns fuel,
\* never fall below W_dry, and W_total >= W_dry + the fuel burned at all points.
C7_MonotonicDepletion ==
    Solved("weight") =>
       LET pts == MissionPoints
           ws(g) == W("W_{start}", pts[g].s, pts[g].k)
           wb(g) == W("W_{burn}", pts[g].s, pts[g].k)
           dry == ValueAt(Sc("W_{dry}"))
       IN /\ Len(pts) = SumLen
          /\ ws(1) = ValueAt(Sc("W_{total}"))
          /\ \A g \in 1..(Len(pts) - 1) :
                /\ ws(g + 1) <= ws(g)
                /\ wb(g) > 0 => ws(g + 1) < ws(g)
          /\ \A g \in 1..Len(pts) : ws(g) >= dry
          /\ ValueAt(Sc("W_{total}")) >= dry + SumSeq([g \in 1..Len(pts) |-> wb(g)])

C7_Witness ==
    /\ Solved("weight") /\ variant = "twoclimb"
    /\ Nclimb1 = 1 /\ Nclimb2 = 2 /\ Ncruise = 2
    /\ ValueAt(Sc("W_{total}")) = 6 /\ ValueAt(Sc("W_{dry}")) = 1
    /\ W("W_{start}", "cruise", 1) = 2

RangeNames == {"RngClimb", "RngCruise", "Rng"}

\* C8: in the two-climb variant the only constraint on range is one inequality
\* sum of the downrange distances of all points of climb 1, climb 2 and cruise
\* >= ReqRng: a point is a solution exactly when that sum reaches ReqRng, and
\* no constraint bounds a single point or segment.
C8_GlobalRange ==
    variant = "twoclimb" =>
      /\ pc = "built" =>
            /\ Cardinality(RowsNaming("ReqRng")
                           \cup UNION {RowsNaming(n) : n \in RangeNames}) = 1
            /\ \A j \in RowsNaming("ReqRng") :
                  /\ constraints[j].op = ">="
                  /\ constraints[j].rhs = P(Sc("ReqRng"))
                  /\ Len(constraints[j].lhs) = SumLen
                  /\ PolyVars(constraints[j].lhs) =
                        {Vr("RngClimb", "climb1", k) : k \in 0..(Nclimb1 - 1)}
                        \cup {Vr("RngClimb", "climb2", k) : k \in 0..(Nclimb2 - 1)}
                        \cup {Vr("RngCruise", "cruise", k) : k \in 0..(Ncruise - 1)}
                  /\ \A m \in 1..SumLen :
                        constraints[j].lhs[m].c = 1 /\ constraints[j].lhs[m].d = 1
      /\ (pc = "solving" /\ focus = "range" /\ Len(vals) = Len(program) - 1) =>
            \A x \in 1..MaxRng :
               Feasible(program, Append(vals, x)) <=> SumSeq(Tail(vals)) + x >= vals[1]
      /\ Solved("range") => SumSeq(Tail(vals)) >= ValueAt(Sc("ReqRng"))

C8_Witness ==
    /\ Solved("range") /\ variant = "twoclimb"
    /\ Nclimb1 = 1 /\ Nclimb2 = 1 /\ Ncruise = 1
    /\ ValueAt(Sc("ReqRng")) = 4
    /\ W("RngClimb", "climb1", 0) = 2 /\ W("RngClimb", "climb2", 0) = 1
    /\ W("RngCruise", "cruise", 0) = 1

\* C9: in the simple variant every cruise point's range is ReqRng / Ncruise, so
\* the cruise ranges add up to exactly ReqRng, and no constraint mentions the
\* downrange distance of a climb point.
C9_EvenCruiseSplit ==
    variant = "simple" =>
      /\ pc = "built" =>
            /\ RowsNaming("RngClimb") = {}
            /\ \A j \in RowsNaming("ReqRng") :
                  \E k \in 0..(Ncruise - 1) :
                     VarsOf(constraints[j]) = {Sc("ReqRng"), Vr("Rng", "cruise", k)}
      /\ Solved("range") =>
            /\ \A k \in 0..(Ncruise - 1) :
                  Ncruise * W("Rng", "cruise", k) = ValueAt(Sc("ReqRng"))
            /\ SumSeq([k \in 1..Ncruise |-> W("Rng", "cruise", k - 1)])
                  = ValueAt(Sc("ReqRng"))

C9_Witness ==
    /\ Solved("range") /\ variant = "simple" /\ Nclimb1 = 2 /\ Ncruise = 2
    /\ ValueAt(Sc("ReqRng")) = 4
    /\ W("Rng", "cruise", 0) = 2 /\ W("Rng", "cruise", 1) = 2
    /\ W("RngClimb", "climb", 0) = 2 /\ W("RngClimb", "climb", 1) = 1

\* C10 (as claimed; the code violates it): in both variants every solution has
\* a rate of climb at the first climb point of at least RC_min.
C10_ClimbRateFloor ==
    Solved("rc") => W("RC", FirstSeg, 0) >= ValueAt(Sc("RC_{min}"))

\* ---- altitude profile
H(s, k) == ValueAt(Vr("hft", s, k))
DH(s, k) == ValueAt(Vr("dhft", s, k))
\* Quantum.den times the length in ft of x grid steps
Ft(x) == x * Quantum.num
\* the solver has fixed the first n variables of the altitude group
AltFixed(n) == pc \in {"solving", "solved"} /\ focus = "alt" /\ Len(vals) >= n
\* the altitude variables of climb 1 come first in the two-climb group
Climb1Fixed == variant = "twoclimb" /\ AltFixed(1 + 2 * Nclimb1)

\* within segment s the altitude never decreases from one point to the next
\* and increases across a positive step
Monotone(s) ==
    \A k \in 0..(SegLen(s) - 2) :
       /\ H(s, k + 1) >= H(s, k)
       /\ DH(s, k) > 0 => H(s, k + 1) > H(s, k)

\* C11 (as claimed; the code violates it for climb 2): in every assignment
\* that satisfies the altitude constraints, within the simple variant's climb
\* and within climb 1 and climb 2 of the two-climb variant the altitude at
\* point i+1 is at least the altitude at point i, and greater when the
\* per-step delta is positive.
C11_ClimbMonotone ==
    /\ (Solved("alt") /\ variant = "simple") => Monotone("climb")
    /\ Climb1Fixed => Monotone("climb1")
    /\ (Solved("alt") /\ variant = "twoclimb") => Monotone("climb2")

\* C12: in the two-climb variant, for every Nclimb1, the per-step delta of
\* climb 1 is 10000/Nclimb1 ft and the altitude of climb-1 point i is exactly
\* (i+1) * 10000/Nclimb1 ft, so the last point of climb 1 is at 10000 ft.
C12_Climb1Pinned ==
    Climb1Fixed =>
       /\ Nclimb1 * Ft(ValueAt(Sc("dhftholdcl1"))) = 10000 * Quantum.den
       /\ \A k \in 0..(Nclimb1 - 1) :
             /\ Nclimb1 * Ft(DH("climb1", k)) = 10000 * Quantum.den
             /\ Nclimb1 * Ft(H("climb1", k)) = (k + 1) * 10000 * Quantum.den
       /\ Ft(H("climb1", Nclimb1 - 1)) = 10000 * Quantum.den

C12_Witness ==
    /\ Solved("alt") /\ variant = "twoclimb"
    /\ Nclimb1 = 3 /\ Nclimb2 = 1 /\ Ncruise = 1
    /\ H("climb1", 0) = 1 /\ H("climb1", 1) = 2 /\ H("climb1", 2) = 3
    /\ Ft(H("climb1", 2)) = 10000 * Quantum.den

\* C13 (as claimed; the code violates it): in the two-climb variant every
\* assignment that satisfies the constraints has a climb-2 per-step delta of
\* exactly (CruiseAlt - 10000 ft) / Nclimb2.
C13_Climb2StepFixed ==
    (Solved("alt") /\ variant = "twoclimb") =>
       /\ Nclimb2 * Ft(ValueAt(Sc("dhftholdcl2")))
             = Ft(ValueAt(Sc("CruiseAlt"))) - 10000 * Quantum.den
       /\ \A k \in 0..(Nclimb2 - 1) :
             Nclimb2 * Ft(DH("climb2", k))
                = Ft(ValueAt(Sc("CruiseAlt"))) - 10000 * Quantum.den

\* C14: in the two-climb variant the list equates the altitude of the last
\* climb-2 point with the altitude of the first cruise point and that with
\* CruiseAlt, and in every solution the three are equal.
C14_Climb2MeetsCruise ==
    variant = "twoclimb" =>
      /\ pc = "built" =>
            /\ \E j \in RowsOver({Vr("hft", "climb2", Nclimb2 - 1), Vr("hft", "cruise", 0)}) :
                  constraints[j].op = "=="
            /\ \E j \in RowsOver({Vr("hft", "cruise", 0), Sc("CruiseAlt")}) :
                  constraints[j].op = "=="
      /\ Solved("alt") =>
            /\ H("climb2", Nclimb2 - 1) = H("cruise", 0)
            /\ H("cruise", 0) = ValueAt(Sc("CruiseAlt"))

C14_Witness ==
    /\ Solved("alt") /\ variant = "twoclimb"
    /\ Nclimb1 = 1 /\ Nclimb2 = 2 /\ Ncruise = 1
    /\ ValueAt(Sc("CruiseAlt")) = 5 /\ H("cruise", 0) = 5
    /\ H("climb2", 0) = 3 /\ H("climb2", 1) = 5

\* the partial point vs of the altitude group can be completed to a solution
\* in which the cruise altitude increases from every cruise point to the next
RECURSIVE CruiseClimbAdmitted(_, _)
CruiseClimbAdmitted(prog, vs) ==
    LET fv == FocusVars("alt")
        n == Len(vs) + 1
    IN IF n > Len(prog)
       THEN \A k \in 0..(Ncruise - 2) :
               vs[PosIn(Vr("hft", "cruise", k + 1), fv)] > vs[PosIn(Vr("hft", "cruise", k), fv)]
       ELSE \E x \in Domain(fv[n]) :
               /\ HoldsAt(prog, n, Append(vs, x))
               /\ CruiseClimbAdmitted(prog, Append(vs, x))

\* C15 (as claimed; the code violates it): in the two-climb variant with
\* Ncruise >= 2 the altitude constraints have a solution in which the cruise
\* altitude increases strictly from each cruise point to the next.
C15_CruiseClimbSatisfiable ==
    (pc = "solving" /\ focus = "alt" /\ vals = <<>> /\ variant = "twoclimb" /\ Ncruise >= 2)
       => CruiseClimbAdmitted(program, <<>>)

\* C16: in the simple variant every solution has CruiseAlt >= 30000 ft and
\* every cruise point at the altitude CruiseAlt, so no cruise point is below
\* 30000 ft.
C16_LevelCruiseFloor ==
    (Solved("alt") /\ variant = "simple") =>
       /\ Ft(ValueAt(Sc("CruiseAlt"))) >= 30000 * Quantum.den
       /\ \A k \in 0..(Ncruise - 1) :
             /\ H("cruise", k) = ValueAt(Sc("CruiseAlt"))
             /\ Ft(H("cruise", k)) >= 30000 * Quantum.den

C16_Witness ==
    /\ Solved("alt") /\ variant = "simple" /\ Nclimb1 = 2 /\ Ncruise = 2
    /\ ValueAt(Sc("CruiseAlt")) = 4
    /\ H("cruise", 0) = 4 /\ H("cruise", 1) = 4
    /\ H("climb", 0) = 2 /\ H("climb", 1) = 4

\* ---- fuel accounting
\* both sides of a row of the solver's model are equal at the point vs
TightAt(row, vs) ==
    LET sc == DenProd(row.lhs) * DenProd(row.rhs)
    IN PolyVal(row.lhs, sc, vs) = PolyVal(row.rhs, sc, vs)
\* every TCS-wrapped row of the solver's model, but those of the source lines
\* in except, holds with equality at the solver's point
TightBut(except) ==
    \A n \in 1..Len(program) : \A j \in 1..Len(program[n]) :
       (program[n][j].wrap = "TCS" /\ program[n][j].line \notin except)
          => TightAt(program[n][j], vals)
\* the source line of TCS([W_dry + W_ftotal <= W_total])
ClosureLine == IF variant = "simple" THEN 98 ELSE 114
\* the fuel burned at all points of segment s / of the mission
BurnOf(s) == SumSeq([k \in 1..SegLen(s) |-> W("W_{burn}", s, k - 1)])
BurnTotal == SumSeq([j \in 1..Len(Segments(variant)) |-> BurnOf(Segments(variant)[j])])

\* C17: in every solution in which the TCS-wrapped weight constraints hold
\* with equality, W_dry + W_ftotal = W_total, W_total minus the end weight of
\* the last cruise point is the fuel burned at all points and equals W_ftotal;
\* the closure already follows when the other TCS-wrapped constraints are
\* tight, so the tight constraints do not over-determine the weights.
C17_FuelAccountingCloses ==
    Solved("fuel") =>
       LET tot == ValueAt(Sc("W_{total}"))
           dry == ValueAt(Sc("W_{dry}"))
           ft  == ValueAt(Sc("W_{f_{total}}"))
       IN /\ TightBut({}) =>
                /\ dry + ft = tot
                /\ tot - W("W_{end}", "cruise", Ncruise - 1) = BurnTotal
                /\ ft = BurnTotal
          /\ TightBut({ClosureLine}) => dry + ft = tot

C17_Witness ==
    /\ Solved("fuel") /\ variant = "twoclimb" /\ TightBut({})
    /\ Nclimb1 = 1 /\ Nclimb2 = 1 /\ Ncruise = 1
    /\ ValueAt(Sc("W_{total}")) = 5 /\ ValueAt(Sc("W_{dry}")) = 2
    /\ ValueAt(Sc("W_{f_{total}}")) = 3 /\ W("W_{end}", "cruise", 0) = 2

\* C19: the cost handed to the solver is W_ftotal; the list bounds W_ftotal
\* from below by the sum of the fuel weights of the variant's segments, each
\* segment once, and each segment's fuel weight by the sum of W_burn over all
\* its points, each point once; so in every solution W_ftotal is at least the
\* fuel burned at all points of all segments.
C19_ObjectiveTotalFuel ==
    LET S == Segments(variant) IN
    /\ Objective = Sc("W_{f_{total}}")
    /\ pc = "built" =>
          /\ \E j \in 1..Len(constraints) :
                /\ constraints[j].lhs = P(Objective) /\ constraints[j].op = ">="
                /\ Len(constraints[j].rhs) = Len(S)
                /\ \A k \in 1..Len(S) : constraints[j].rhs[k] = Mon(1, 1, <<FuelOf(S[k])>>)
          /\ Cardinality({j \in 1..Len(constraints) : constraints[j].lhs = P(Objective)}) = 1
          /\ \A k \in 1..Len(S) :
                /\ Cardinality({j \in 1..Len(constraints) :
                                   constraints[j].lhs = P(FuelOf(S[k]))}) = 1
                /\ \A j \in 1..Len(constraints) :
                      constraints[j].lhs = P(FuelOf(S[k])) =>
                         /\ constraints[j].op = ">="
                         /\ Len(constraints[j].rhs) = SegLen(S[k])
                         /\ \A m \in 1..SegLen(S[k]) :
                               constraints[j].rhs[m] =
                                  Mon(1, 1, <<Vr("W_{burn}", S[k], m - 1)>>)
    /\ Solved("fuel") =>
          /\ ValueAt(Objective) >= SumSeq([k \in 1..Len(S) |-> ValueAt(FuelOf(S[k]))])
          /\ \A k \in 1..Len(S) : ValueAt(FuelOf(S[k])) >= BurnOf(S[k])
          /\ ValueAt(Objective) >= BurnTotal

C19_Witness ==
    /\ Solved("fuel") /\ variant = "twoclimb"
    /\ Nclimb1 = 1 /\ Nclimb2 = 1 /\ Ncruise = 1
    /\ ValueAt(Objective) = 4
    /\ ValueAt(FuelOf("climb1")) = 1 /\ ValueAt(FuelOf("climb2")) = 2
    /\ ValueAt(FuelOf("cruise")) = 1 /\ W("W_{burn}", "climb2", 0) = 1

\* ---- fuel burn from the engine
\* the slice of the engine vectors used for segment s in the built Mission
SliceOf(s) == EngineSlice(variant, s, Nclimb1, Nclimb2, enginelen)
\* the rows of the list that set W_burn of point k of segment s
BurnSetters(s, k) ==
    {j \in 1..Len(constraints) :
        constraints[j].lhs = P(Vr("W_{burn}", s, k)) /\ constraints[j].op = "=="}

\* C18: for every segment and local index i the list holds the one equality
\* W_burn[i] == numeng * TSFC[g] * thr[i] * F[g] with g = (sum of the counts of
\* the preceding segments) + i; the engine slices of the segments have the
\* segments' lengths and partition 0..N-1.
C18_BurnFromEngineSlice ==
    pc = "built" =>
       /\ \A s \in SegsOf(variant) :
             /\ Len(SliceOf(s)) = SegLen(s)
             /\ \A k \in 0..(SegLen(s) - 1) :
                   LET g == Preceding(Segments(variant), s) + k IN
                   /\ SliceOf(s)[k + 1] = g
                   /\ Cardinality(BurnSetters(s, k)) = 1
                   /\ \A j \in BurnSetters(s, k) :
                         constraints[j].rhs =
                            <<Mon(1, 1, <<Ac("numeng"), Vr("TSFC", "engine", g),
                                          Vr("thr", s, k), Vr("F", "engine", g)>>)>>
       /\ \A g \in 0..(enginelen - 1) :
             Cardinality({s \in SegsOf(variant) :
                            \E k \in 1..Len(SliceOf(s)) : SliceOf(s)[k] = g}) = 1
       /\ \A s \in SegsOf(variant) : \A k \in 1..Len(SliceOf(s)) :
             SliceOf(s)[k] \in 0..(enginelen - 1)

C18_Witness ==
    /\ pc = "built" /\ variant = "twoclimb"
    /\ Nclimb1 = 2 /\ Nclimb2 = 1 /\ Ncruise = 2
    /\ SliceOf("cruise") = <<3, 4>>
    /\ \E j \in BurnSetters("cruise", 1) :
          constraints[j].rhs = <<Mon(1, 1, <<Ac("numeng"), Vr("TSFC", "engine", 4),
                                            Vr("thr", "cruise", 1), Vr("F", "engine", 4)>>)>>
    /\ \E j \in BurnSetters("climb2", 0) :
          constraints[j].rhs = <<Mon(1, 1, <<Ac("numeng"), Vr("TSFC", "engine", 2),
                                            Vr("thr", "climb2", 0), Vr("F", "engine", 2)>>)>>

\* ---- the lengths a Mission hands to StateLinking
\* C20: for all positive counts a Mission builds one shared flight-state
\* sequence whose length is the sum of the counts and calls StateLinking with
\* the segments' own counts in mission order, so StateLinking never fails on a
\* length mismatch: it returns 18 constraints per mission point, 18 x its count
\* for every segment, over the segment's own range of global indices, and all
\* of them within the shared sequence.
C20_MissionLengthsAgree ==
    caller = "mission" =>
       /\ pc # "mission" => enginelen = SumLen
       /\ pc # "error"
       /\ \A j \in 1..Len(linkcons) : linkcons[j].glob \in 0..(enginelen - 1)
       /\ (LinkReturned \/ Built) =>
             /\ Len(linkcons) = 18 * enginelen
             /\ \A s \in SegsOf(variant) :
                   LET of == {j \in 1..Len(linkcons) : linkcons[j].seg = s}
                       base == Preceding(Segments(variant), s)
                   IN /\ Cardinality(of) = 18 * SegLen(s)
                      /\ {linkcons[j].glob : j \in of} = base..(base + SegLen(s) - 1)

C20_Witness ==
    /\ caller = "mission" /\ pc = "built" /\ variant = "twoclimb"
    /\ Nclimb1 = 2 /\ Nclimb2 = 2 /\ Ncruise = 1
    /\ enginelen = 5 /\ Len(linkcons) = 90
    /\ \E j \in 1..Len(linkcons) : linkcons[j].seg = "cruise" /\ linkcons[j].glob = 4

\* ---- what StateLinking leaves alone
\* control is inside StateLinking.setup
Linking == pc \in {"outer", "inner1", "inner2", "inner3"}

Solves == driver.solves
\* the localsolve call number j has returned
Returned(j) == j < Len(Solves) \/ driver.val = 0

\* C22 (as claimed; the cruise-altitude sweep branch of both scripts violates
\* it): every model handed to the solver was built from the Mission constructed
\* last before that solve, and no Mission instance is handed to the solver twice.
C22_FreshMissionPerSolve ==
    pc = "script" =>
       /\ \A j \in 1..Len(Solves) : Solves[j].inst = Solves[j].made
       /\ \A j, k \in 1..Len(Solves) : j < k => Solves[j].inst # Solves[k].inst

\* C23: every localsolve call over a swept substitution is made with
\* skipsweepfailures, a sweep solve that has returned has tried every sweep
\* value whatever failed before, and a failed solve ends the script only in the
\* one baseline solve.
C23_SweepFailuresSkipped ==
    pc = "script" =>
       /\ \A j \in 1..Len(Solves) : Solves[j].sweep => Solves[j].skip
       /\ \A j \in 1..Len(Solves) :
             (Solves[j].sweep /\ Returned(j)) => Solves[j].tried = SweepLen
       /\ driver.status = "RuntimeWarning" =>
             /\ Len(Solves) = 1
             /\ ~ Solves[1].sweep

C23_Witness ==
    /\ pc = "script" /\ driver.status = "finished"
    /\ \E j \in 1..Len(Solves) :
          Solves[j].sweep /\ Solves[j].ok = 0 /\ Solves[j].tried = SweepLen

\* ---- the speed limit below 10,000 ft
\* a constraint that bounds one speed from above by a constant
SpeedCap(con) ==
    /\ con.op = "<=" /\ Len(con.lhs) = 1 /\ Len(con.lhs[1].vs) = 1
    /\ con.lhs[1].vs[1].n = "V" /\ PolyVars(con.rhs) = {}
\* the mission points whose speed the list caps
Capped == {constraints[j].lhs[1].vs[1] : j \in {r \in 1..Len(constraints) : SpeedCap(constraints[r])}}

\* C24: in the two-climb variant the list caps the speed of every climb-1
\* sub-point at 250 knots and caps the speed of no climb-2 or cruise sub-point.
C24_SpeedLimitClimb1Only ==
    (Built /\ variant = "twoclimb") =>
       /\ Capped = {Vr("V", "climb1", k) : k \in 0..(Nclimb1 - 1)}
       /\ \A j \in 1..Len(constraints) :
             SpeedCap(constraints[j]) => constraints[j].rhs = K(250)

C24_Witness ==
    /\ pc = "built" /\ variant = "twoclimb"
    /\ Nclimb1 = 2 /\ Nclimb2 = 1 /\ Ncruise = 1
    /\ Cardinality(Capped) = 2

\* ---- the engine wiring
\* the variables of a posynomial, those in a denominator included
PolyAllVars(p) ==
    UNION {{p[j].vs[k] : k \in 1..Len(p[j].vs)}
              \cup (IF "inv" \in DOMAIN p[j] THEN {p[j].inv[k] : k \in 1..Len(p[j].inv)} ELSE {})
           : j \in 1..Len(p)}
WiringVars(con) == PolyAllVars(con.lhs) \cup PolyAllVars(con.rhs)
\* the rows of the wiring lists with this left side, relation and right side
WiringRows(lhs, op, rhs) ==
    {r \in 1..Len(wiring) :
        wiring[r].lhs = lhs /\ wiring[r].op = op /\ wiring[r].rhs = rhs}
\* thrust of all engines at global index g
Thrust(g) == <<Mon(1, 1, <<Ac("numeng"), Vr("F", "engine", g)>>)>>

\* C25: in the simple variant the wiring holds, for every cruise point i in
\* 0..Ncruise-1, the equality D[i] == numeng * F[Nclimb + i], and no other
\* row relates a cruise drag to a thrust.
C25_CruiseDragEqualsThrust ==
    (pc = "built" /\ variant = "simple") =>
       /\ \A k \in 0..(Ncruise - 1) :
             Cardinality(WiringRows(P(Vr("D", "cruise", k)), "==", Thrust(Nclimb1 + k))) = 1
       /\ \A r \in 1..Len(wiring) :
             (\E v \in WiringVars(wiring[r]) : v.n = "D" /\ v.s = "cruise"
                  /\ \E e \in WiringVars(wiring[r]) : e.n = "F")
             => \E k \in 0..(Ncruise - 1) :
                   r \in WiringRows(P(Vr("D", "cruise", k)), "==", Thrust(Nclimb1 + k))

C25_Witness ==
    /\ pc = "built" /\ variant = "simple" /\ Nclimb1 = 2 /\ Ncruise = 2
    /\ WiringRows(P(Vr("D", "cruise", 1)), "==", Thrust(3)) # {}

\* the global indices StateLinking links point k of segment s to
LinkedIndex(s, k) ==
    {linkcons[j].glob : j \in {r \in 1..Len(linkcons) : linkcons[r].seg = s /\ linkcons[r].loc = k}}
\* the segments whose thrust must cover drag and weight along the flight path
Climbing(vnt) == IF vnt = "simple" THEN {"climb"} ELSE {"climb1", "climb2", "cruise"}

\* C28: every wiring row that names a quantity of point i of a segment takes
\* its engine quantities at the global index StateLinking links (segment, i)
\* to; every point has its M_2 == M row and, in the climb segments and the
\* cruise-climb, its thrust and excess-power rows at that index.
C28_WiringAtLinkedIndex ==
    pc = "built" =>
       /\ \A r \in 1..Len(wiring) : \A v, e \in WiringVars(wiring[r]) :
             (v.s \in SegsOf(variant) /\ e.s = "engine") => LinkedIndex(v.s, v.k) = {e.k}
       /\ \A s \in SegsOf(variant) : \A k \in 0..(SegLen(s) - 1) :
             \E g \in LinkedIndex(s, k) :
                /\ WiringRows(P(Vr("M_2", "engine", g)), "==", P(Vr("M", s, k))) # {}
                /\ s \in Climbing(variant) =>
                     /\ WiringRows(Thrust(g), ">=",
                                   <<Mon(1, 1, <<Vr("D", s, k)>>),
                                     Mon(1, 1, <<Vr("W_{avg}", s, k), Vr("\\theta", s, k)>>)>>) # {}
                     /\ WiringRows(<<Mon(1, 1, <<Vr("excessP", s, k)>>),
                                     Mon(1, 1, <<Vr("V", s, k), Vr("D", s, k)>>)>>, "<=",
                                   <<Mon(1, 1, <<Vr("V", s, k), Ac("numeng"),
                                                 Vr("F", "engine", g)>>)>>) # {}

C28_Witness ==
    /\ pc = "built" /\ variant = "twoclimb"
    /\ Nclimb1 = 2 /\ Nclimb2 = 1 /\ Ncruise = 2
    /\ LinkedIndex("cruise", 1) = {4}
    /\ WiringRows(P(Vr("M_2", "engine", 4)), "==", P(Vr("M", "cruise", 1))) # {}
    /\ WiringRows(P(Vr("M_2", "engine", 2)), "==", P(Vr("M", "climb2", 0))) # {}

\* ---- the simple variant's climb altitudes
\* C26: in every assignment that satisfies the simple variant's altitude
\* constraints, for every Nclimb >= 1, the altitude of climb point i is exactly
\* (i+1) * CruiseAlt / Nclimb, and the last climb altitude is at most every
\* cruise altitude and equal to CruiseAlt.
C26_ClimbAltitudesPinned ==
    (Solved("alt") /\ variant = "simple") =>
       /\ \A k \in 0..(Nclimb1 - 1) :
             Nclimb1 * H("climb", k) = (k + 1) * ValueAt(Sc("CruiseAlt"))
       /\ \A k \in 0..(Ncruise - 1) : H("climb", Nclimb1 - 1) <= H("cruise", k)
       /\ H("climb", Nclimb1 - 1) = ValueAt(Sc("CruiseAlt"))

C26_Witness ==
    /\ Solved("alt") /\ variant = "simple" /\ Nclimb1 = 3 /\ Ncruise = 1
    /\ ValueAt(Sc("CruiseAlt")) = 6
    /\ H("climb", 0) = 2 /\ H("climb", 1) = 4 /\ H("climb", 2) = 6

\* ---- the cruise-climb
\* the cruise altitude variables (CruiseAlt, dhftholdcr, hftCruise, dhftcr)
\* follow those of climb 1 in the two-climb group
CruiseFixed == variant = "twoclimb" /\ AltFixed(1 + 2 * Nclimb1 + 2 + 2 * Ncruise)

\* C27: in the two-climb variant the list holds, for every cruise point but the
\* last, the signomial equality hftCruise[i+1] == hftCruise[i] + dhftholdcr
\* with the one scalar dhftholdcr; in every assignment of the cruise altitude
\* variables that satisfies the constraints on them each cruise delta equals
\* dhftholdcr and hftCruise[i] = CruiseAlt + i * dhftholdcr.
C27_CruiseClimbSteps ==
    /\ (pc = "built" /\ variant = "twoclimb") =>
          \A k \in 0..(Ncruise - 2) :
             \E j \in 1..Len(constraints) :
                constraints[j] = Con(P(Vr("hft", "cruise", k + 1)), "==",
                                     P(Vr("hft", "cruise", k)) \o P(Sc("dhftholdcr")),
                                     "SigEq", 138)
    /\ CruiseFixed =>
          /\ \A k \in 0..(Ncruise - 2) :
                H("cruise", k + 1) = H("cruise", k) + ValueAt(Sc("dhftholdcr"))
          /\ \A k \in 0..(Ncruise - 1) :
                /\ DH("cruise", k) = ValueAt(Sc("dhftholdcr"))
                /\ H("cruise", k) = ValueAt(Sc("CruiseAlt")) + k * ValueAt(Sc("dhftholdcr"))

C27_Witness ==
    /\ CruiseFixed /\ Nclimb1 = 1 /\ Nclimb2 = 1 /\ Ncruise = 3
    /\ ValueAt(Sc("CruiseAlt")) = 3 /\ ValueAt(Sc("dhftholdcr")) = 2
    /\ H("cruise", 0) = 3 /\ H("cruise", 1) = 5 /\ H("cruise", 2) = 7
    /\ DH("cruise", 2) = 2

\* ---- the dry weight
\* C29: in both variants every assignment that satisfies the dry-weight row has
\* W_dry >= W_e + W_payload + numeng * W_engine + W_wing, the engine weight
\* counted once per engine.
C29_DryWeightSum ==
    Solved("dry") =>
       ValueAt(Sc("W_{dry}"))
          >= ValueAt(Ac("W_{e}")) + ValueAt(Ac("W_{payload}"))
               + ValueAt(Ac("numeng")) * ValueAt(Ac("W_{engine}")) + ValueAt(Ac("W_{wing}"))

C29_Witness ==
    /\ Solved("dry") /\ variant = "twoclimb"
    /\ ValueAt(Ac("numeng")) = 2 /\ ValueAt(Ac("W_{engine}")) = 1
    /\ ValueAt(Ac("W_{e}")) = 1 /\ ValueAt(Ac("W_{payload}")) = 1 /\ ValueAt(Ac("W_{wing}")) = 1
    /\ ValueAt(Sc("W_{dry}")) = 5

\* ---- the altitude range of climb 2
\* C30 (as claimed; the code violates it): in the two-climb variant every
\* assignment that satisfies the altitude constraints has every climb-2 point
\* at or above 10000 ft and at or below the cruise altitude, and the altitude
\* does not decrease from the last point of climb 1 to the first of climb 2 nor
\* from the last point of climb 2 to the first cruise point.
C30_Climb2AltitudeRange ==
    (Solved("alt") /\ variant = "twoclimb") =>
       /\ \A k \in 0..(Nclimb2 - 1) :
             /\ Ft(H("climb2", k)) >= 10000 * Quantum.den
             /\ H("climb2", k) <= ValueAt(Sc("CruiseAlt"))
       /\ H("climb1", Nclimb1 - 1) <= H("climb2", 0)
       /\ H("climb2", Nclimb2 - 1) <= H("cruise", 0)

====
